---- MODULE Spec2Model ----
(***************************************************************************)
(* A model of src/app.py: the spreadsheet-to-SQLite import pipeline.        *)
(*                                                                         *)
(*   upload       reads the spreadsheet, cleans the column names and       *)
(*                infers a type per column (infer_data_type);              *)
(*   create_db    drops and re-creates the table internships_<year>;       *)
(*   insert_data  reads the table's catalog back, coerces every cell to    *)
(*                the catalog type of its column and inserts the rows.     *)
(*                                                                         *)
(* Text (column names, SQL) is a sequence of one-character strings.        *)
(* Numbers are kept in tenths (15 is 1.5) so that truncation is visible.   *)
(***************************************************************************)
EXTENDS Integers, Sequences, FiniteSets, TLC

\* ------------------------------------------------------------------ bounds

\* A dataset holds at most MaxCells cells (rows x columns).
MaxCells == 2
\* A spreadsheet header holds at most MaxHeaderChars characters in all.
MaxHeaderChars == 3
\* A row coerced on its own holds at most MaxRowWidth cells.
MaxRowWidth == 3
\* A spreadsheet whose types are inferred holds at most MaxInferCells cells.
MaxInferCells == 3
\* A confirmed column name holds at most MaxNameLen characters.
MaxNameLen == 2
\* The table holds at most MaxTableRows rows.
MaxTableRows == 2
\* A confirmed schema holds at most MaxCols columns.
MaxCols == 2

\* ------------------------------------------------- outcomes of Python code

Ok(v) == [raised |-> FALSE, val |-> v]
Raise(e) == [raised |-> TRUE, exc |-> e]

\* ----------------------------------------- cell values, as pandas yields them

Missing == [k |-> "missing"]
IntCell(n) == [k |-> "int", n |-> n]
\* A finite float, in tenths.
FloatCell(t) == [k |-> "float", t |-> t]
\* A finite float beyond the range of a 64-bit integer (1e30).
HugeCell == [k |-> "huge"]
TextCell(s) == [k |-> "text", s |-> s]
\* A datetime cell: neither a number nor text.
DateCell == [k |-> "date"]

\* Python floats: finite (tenths), finite and huge, or infinite.
Fin(t) == [f |-> "fin", t |-> t]
HugeFloat == [f |-> "huge"]
Inf == [f |-> "inf"]

\* The values bound to an INSERT's parameters.
Null == [t |-> "null"]
SqlInt(n) == [t |-> "int", n |-> n]
\* A Python int beyond 64 bits: sqlite3 refuses to bind it.
SqlBigInt == [t |-> "bigint"]
SqlReal(f) == [t |-> "real", f |-> f]
SqlText(s) == [t |-> "text", s |-> s]

\* pd.isna(value)
isna(value) == value.k = "missing"

\* float(s) for a str s: the literals of the model's text cells.
StrToFloat(s) ==
    CASE s = "2.5" -> Ok(Fin(25))
      [] s = "-1.5" -> Ok(Fin(-15))
      [] s = "7" -> Ok(Fin(70))
      [] s = "inf" -> Ok(Inf)
      [] OTHER -> Raise("ValueError")

\* float(value)
PyFloat(value) ==
    CASE value.k = "int" -> Ok(Fin(value.n * 10))
      [] value.k = "float" -> Ok(Fin(value.t))
      [] value.k = "huge" -> Ok(HugeFloat)
      [] value.k = "text" -> StrToFloat(value.s)
      [] OTHER -> Raise("TypeError")

\* Truncation toward zero of a number in tenths.
Trunc(t) == IF t >= 0 THEN t \div 10 ELSE -((-t) \div 10)

\* int(f) for a float f
PyInt(f) ==
    CASE f.f = "fin" -> Ok(SqlInt(Trunc(f.t)))
      [] f.f = "huge" -> Ok(SqlBigInt)
      [] OTHER -> Raise("OverflowError")

Digit == <<"0", "1", "2", "3", "4", "5", "6", "7", "8", "9">>

RECURSIVE NatStr(_)
NatStr(n) == IF n < 10 THEN Digit[n + 1]
             ELSE NatStr(n \div 10) \o Digit[(n % 10) + 1]

\* str(n) for an int n
IntStr(n) == IF n < 0 THEN "-" \o NatStr(-n) ELSE NatStr(n)

\* str(x) for a float x given in tenths: 15 is "1.5", 20 is "2.0"
FloatStr(t) ==
    LET a == IF t < 0 THEN -t ELSE t
    IN  (IF t < 0 THEN "-" ELSE "") \o NatStr(a \div 10) \o "." \o Digit[(a % 10) + 1]

\* str(value)
PyStr(value) ==
    CASE value.k = "int" -> IntStr(value.n)
      [] value.k = "float" -> FloatStr(value.t)
      [] value.k = "huge" -> "1e+30"
      [] value.k = "text" -> value.s
      [] OTHER -> "2024-01-01 00:00:00"

\* ------------------------------------------------ insert_data: the coercion

\* The try body of lines 129-134.
Convert(value, target_type) ==
    IF target_type = "INTEGER" THEN
        LET f == PyFloat(value) IN IF f.raised THEN f ELSE PyInt(f.val)
    ELSE IF target_type = "REAL" THEN
        LET f == PyFloat(value) IN IF f.raised THEN f ELSE Ok(SqlReal(f.val))
    ELSE Ok(SqlText(PyStr(value)))

\* The exceptions the except clause of line 135 catches.
Caught == {"ValueError", "TypeError"}

\* Lines 126-136: sanitized_value for one cell, or the exception that escapes.
Coerce(value, target_type) ==
    IF isna(value) THEN Ok(Null)
    ELSE LET r == Convert(value, target_type)
         IN  IF r.raised /\ r.exc \in Caught THEN Ok(Null) ELSE r

\* Line 109: the catalog's column names, in catalog order.
ColumnNames(table_info) == [i \in 1..Len(table_info) |-> table_info[i].name]

\* Line 110: the dict from column name to type; a later entry of the same
\* name replaces an earlier one.
ColumnTypes(table_info) ==
    [nm \in {table_info[i].name : i \in 1..Len(table_info)} |->
        LET last == CHOOSE i \in 1..Len(table_info) :
                       /\ table_info[i].name = nm
                       /\ \A j \in 1..Len(table_info) :
                              table_info[j].name = nm => j <= i
        IN  table_info[last].type]

\* The type of the first column, whatever the cell's position.
TargetTypeOfFirst(table_info, i) == table_info[1].type

\* Lines 123-124: the target type of the i-th cell of a row.
TargetType(table_info, i) == ColumnTypes(table_info)[ColumnNames(table_info)[i]]

\* Lines 121-138: values_to_insert for one row, cell by cell from the left;
\* the first exception that escapes ends the row.
RECURSIVE CoerceFrom(_, _, _, _)
CoerceFrom(row, table_info, i, acc) ==
    IF i > Len(row) THEN Ok(acc)
    ELSE IF i > Len(table_info) THEN Raise("IndexError")
    ELSE LET r == Coerce(row[i], TargetType(table_info, i))
         IN  IF r.raised THEN r
             ELSE CoerceFrom(row, table_info, i + 1, Append(acc, r.val))

CoerceRow(row, table_info) == CoerceFrom(row, table_info, 1, <<>>)

\* ------------------------------------------ SQLite: CREATE TABLE's column list

Types == {"INTEGER", "REAL", "TEXT"}

RECURSIVE Join(_)
\* The string made of the elements of a text.
Join(text) == IF text = <<>> THEN "" ELSE Head(text) \o Join(Tail(text))

\* Line 85, one element of the list: f'"{col["name"]}" {col["type"]}'
ColDef(col) == <<"\"">> \o col.name \o <<"\"", " ", col.type>>

RECURSIVE ColsSqlFrom(_, _)
ColsSqlFrom(columns, i) ==
    IF i > Len(columns) THEN <<>>
    ELSE (IF i = 1 THEN <<>> ELSE <<",", " ">>) \o ColDef(columns[i])
         \o ColsSqlFrom(columns, i + 1)

\* Line 85: cols_sql, the column definitions joined by ", ".
ColsSql(columns) == ColsSqlFrom(columns, 1)

\* SQLite's tokenizer: the closing quote of a quoted identifier whose body
\* starts at j (a doubled quote is an escaped quote), 0 if it never closes.
RECURSIVE QuoteClose(_, _)
QuoteClose(text, j) ==
    IF j > Len(text) THEN 0
    ELSE IF text[j] = "\"" THEN
        IF j + 1 <= Len(text) /\ text[j + 1] = "\"" THEN QuoteClose(text, j + 2)
        ELSE j
    ELSE QuoteClose(text, j + 1)

\* The identifier a quoted body denotes: each doubled quote is one quote.
RECURSIVE Unescape(_)
Unescape(body) ==
    IF body = <<>> THEN <<>>
    ELSE IF Head(body) = "\"" THEN <<"\"">> \o Unescape(SubSeq(body, 3, Len(body)))
    ELSE <<Head(body)>> \o Unescape(Tail(body))

WordChar(c) == c \notin {" ", ",", "\""}

\* The last element of the bare word that starts at j.
RECURSIVE WordEnd(_, _)
WordEnd(text, j) ==
    IF j + 1 <= Len(text) /\ WordChar(text[j + 1]) THEN WordEnd(text, j + 1) ELSE j

\* The tokens of a column list from position i on, or SQLite's
\* "unrecognized token" for a quote that never closes.
RECURSIVE Scan(_, _, _)
Scan(text, i, acc) ==
    IF i > Len(text) THEN Ok(acc)
    ELSE IF text[i] = " " THEN Scan(text, i + 1, acc)
    ELSE IF text[i] = "," THEN
        Scan(text, i + 1, Append(acc, [kind |-> "comma", from |-> i, to |-> i, name |-> <<>>]))
    ELSE IF text[i] = "\"" THEN
        LET e == QuoteClose(text, i + 1)
        IN  IF e = 0 THEN Raise("OperationalError")
            ELSE Scan(text, e + 1,
                      Append(acc, [kind |-> "id", from |-> i, to |-> e,
                                   name |-> Unescape(SubSeq(text, i + 1, e - 1))]))
    ELSE LET e == WordEnd(text, i)
         IN  Scan(text, e + 1,
                  Append(acc, [kind |-> "id", from |-> i, to |-> e,
                               name |-> SubSeq(text, i, e)]))

\* The end of the column definition that starts at token i: the index of the
\* last token before the next comma.
RECURSIVE DefEnd(_, _)
DefEnd(tokens, i) ==
    IF i + 1 <= Len(tokens) /\ tokens[i + 1].kind # "comma" THEN DefEnd(tokens, i + 1)
    ELSE i

\* SQLite's parse of the column list: each definition is a name followed by
\* the tokens of its type; the declared type is the text from the first type
\* token to the last, as written, or, when that text starts with a quote,
\* the identifier its first token denotes (SQLite dequotes the type).
RECURSIVE ParseDefs(_, _, _, _)
ParseDefs(text, tokens, i, acc) ==
    IF i > Len(tokens) \/ tokens[i].kind = "comma" THEN Raise("OperationalError")
    ELSE LET e == DefEnd(tokens, i)
             type == IF e = i THEN ""
                     ELSE IF text[tokens[i + 1].from] = "\"" THEN Join(tokens[i + 1].name)
                     ELSE Join(SubSeq(text, tokens[i + 1].from, tokens[e].to))
             cols == Append(acc, [name |-> tokens[i].name, type |-> type])
         IN  IF e = Len(tokens) THEN Ok(cols)
             ELSE ParseDefs(text, tokens, e + 2, cols)

\* CREATE TABLE t (<text>): the catalog of the table it creates, or the
\* error SQLite raises (a syntax error, or a duplicate column name).
CreateTable(text) ==
    LET toks == Scan(text, 1, <<>>)
    IN  IF toks.raised THEN toks
        ELSE LET cols == ParseDefs(text, toks.val, 1, <<>>)
             IN  IF cols.raised THEN cols
                 ELSE IF \E i, j \in 1..Len(cols.val) :
                            i < j /\ cols.val[i].name = cols.val[j].name
                      THEN Raise("OperationalError")
                      ELSE cols

\* ------------------------------------------------- upload: infer_data_type

\* pd.to_numeric(value, errors='coerce') for one non-missing value: the number
\* it parses to, or NaN.
ToNumeric(value) ==
    LET f == PyFloat(value) IN IF f.raised THEN [f |-> "nan"] ELSE f.val

RECURSIVE DropNa(_)
\* series.dropna()
DropNa(series) ==
    IF series = <<>> THEN <<>>
    ELSE IF isna(Head(series)) THEN DropNa(Tail(series))
    ELSE <<Head(series)>> \o DropNa(Tail(series))

\* Line 20, series_numeric.astype(int): pandas raises ValueError ("Cannot
\* convert non-finite values (NA or inf) to integer") when a value is not
\* finite; otherwise every value is truncated.
AsTypeInt(numeric) ==
    IF \E i \in 1..Len(numeric) : numeric[i].f # "fin" THEN Raise("ValueError")
    ELSE Ok([i \in 1..Len(numeric) |-> Fin(Trunc(numeric[i].t) * 10)])

\* Lines 17-24: the type of a column, or the exception that escapes.
infer_data_type(series) ==
    LET present == DropNa(series)
        series_numeric == [i \in 1..Len(present) |-> ToNumeric(present[i])]
    IN  IF series_numeric # <<>> /\ \A i \in 1..Len(series_numeric) :
                                        series_numeric[i].f # "nan"
        THEN LET ints == AsTypeInt(series_numeric)
             IN  IF ints.raised THEN ints
                 ELSE IF \A i \in 1..Len(series_numeric) :
                             series_numeric[i] = ints.val[i]
                      THEN Ok("INTEGER")
                      ELSE Ok("REAL")
        ELSE Ok("TEXT")

\* ---------------------------------------------------- upload: name cleaning

RECURSIVE Replace(_, _, _)
\* str.replace(old, new) for a one-character old.
Replace(text, old, new) ==
    IF text = <<>> THEN <<>>
    ELSE (IF Head(text) = old THEN new ELSE <<Head(text)>>)
         \o Replace(Tail(text), old, new)

\* The cleaning without its last replacement.
CleanKeepsSlash(col) ==
    Replace(Replace(Replace(Replace(col, " ", <<"_">>), ".", <<>>),
                    "(", <<>>), ")", <<>>)

\* Line 51: col.replace(' ', '_').replace('.', '').replace('(', '')
\*             .replace(')', '').replace('/', '')
Clean(col) ==
    Replace(Replace(Replace(Replace(Replace(col, " ", <<"_">>), ".", <<>>),
                            "(", <<>>), ")", <<>>), "/", <<>>)

\* df[col]: the cells of the i-th column, top to bottom.
Column(data, i) == [j \in 1..Len(data.rows) |-> data.rows[j][i]]

\* ------------------------------------------------------------------ state

VARIABLES
    table,      \* the table internships_<year>: its catalog and its committed rows
    conn,       \* the connection of the request last handled: none, open, closed
    last,       \* the request last handled and its response; for a create_db
                \*   that succeeded, the schema it was given
    df,         \* upload: the spreadsheet submitted, as read_excel returns it
    page,       \* upload: the response, with cleaned_columns (line 51)
    row,        \* the coercion of one row: the row,
    table_info, \*   the catalog it is coerced against,
    bound       \*   and values_to_insert, or the exception that escaped

vars == <<table, conn, last, df, page, row, table_info, bound>>

pipeline == <<table, conn, last>>
uploading == <<df, page>>
coercing == <<row, table_info, bound>>

Absent == [exists |-> FALSE, cols |-> <<>>, rows |-> 0]

NoRequest == [op |-> "none", columns |-> <<>>, w |-> 0, n |-> 0, fault |-> "none",
              status |-> "none", count |-> 0, issued |-> 0]

NotRun == [done |-> FALSE, raised |-> FALSE]

InitPipeline == table = Absent /\ conn = "none" /\ last = NoRequest
InitUpload ==
    /\ df = [columns |-> <<>>, rows |-> <<>>]
    /\ page = [status |-> "none", cleaned_columns |-> <<>>, schema |-> <<>>]
InitCoerce == row = <<>> /\ table_info = <<>> /\ bound = NotRun

\* ----------------------------------------------------------------- create_db

\* Line 84, DROP TABLE IF EXISTS: the table is gone, whether it was there or
\* not. sqlite3 opens no transaction for DDL: the drop is durable at once.
DropIfExists(t) == Absent

\* Lines 64-92. columns is the form's column_name_i / column_type_i pairs;
\* fault is the step at which the storage engine fails, if any.
CreateDb(columns, fault) ==
    LET req == [NoRequest EXCEPT !.op = "create_db", !.fault = fault]
        created == CreateTable(ColsSql(columns))
    IN  /\ UNCHANGED <<uploading, coercing>>
        /\ IF columns = <<>> THEN
               \* line 75: nothing to create; no connection is opened
               /\ table' = table
               /\ conn' = "none"
               /\ last' = [req EXCEPT !.status = "missing"]
           ELSE IF fault = "connect" THEN
               /\ table' = table
               /\ conn' = "none"
               /\ last' = [req EXCEPT !.status = "error"]
           ELSE IF fault = "drop" THEN
               \* line 84 raises: the handler of line 90 does not close db
               /\ table' = table
               /\ conn' = "open"
               /\ last' = [req EXCEPT !.status = "error"]
           ELSE IF fault = "create" \/ created.raised THEN
               \* line 86 raises after the drop
               /\ table' = DropIfExists(table)
               /\ conn' = "open"
               /\ last' = [req EXCEPT !.status = "error"]
           ELSE
               /\ table' = [exists |-> TRUE, cols |-> created.val, rows |-> 0]
               /\ conn' = "closed"
               /\ last' = [req EXCEPT !.status = "created", !.columns = columns]

\* --------------------------------------------------------------- insert_data

\* Lines 107-108, PRAGMA table_info: the catalog, empty when there is no
\* such table.
TableInfo(t) == IF t.exists THEN t.cols ELSE <<>>

\* Only a spreadsheet wider than the table is refused.
MismatchWider(data, info) == Len(data.columns) > Len(info)

\* Line 114: the column counts differ.
Mismatch(data, info) == Len(data.columns) # Len(info)

\* Lines 120-143: the row loop from row j on, with `issued` rows inserted in
\* the open transaction so far. It ends with the first exception: from the
\* coercion, from a parameter sqlite3 cannot bind, or from the storage engine.
RECURSIVE LoadFrom(_, _, _, _, _)
LoadFrom(rows, info, fault, j, issued) ==
    IF j > Len(rows) THEN [raised |-> FALSE, exc |-> "", issued |-> issued]
    ELSE LET values_to_insert == CoerceRow(rows[j], info)
         IN  IF values_to_insert.raised THEN
                 [raised |-> TRUE, exc |-> values_to_insert.exc, issued |-> issued]
             ELSE IF Len(values_to_insert.val) # Len(info) THEN
                 [raised |-> TRUE, exc |-> "ProgrammingError", issued |-> issued]
             ELSE IF \E i \in 1..Len(info) : values_to_insert.val[i] = SqlBigInt THEN
                 [raised |-> TRUE, exc |-> "OverflowError", issued |-> issued]
             ELSE IF fault.at = "execute" /\ fault.row = j THEN
                 [raised |-> TRUE, exc |-> "OperationalError", issued |-> issued]
             ELSE LoadFrom(rows, info, fault, j + 1, issued + 1)

\* Line 145, db.commit(): the rows of the open transaction become the table's.
Commit(rows, pending) == rows + pending

\* A close that keeps the rows of the open transaction.
CloseCommits(rows, pending) == rows + pending

\* Line 153, db.close() with a transaction open: SQLite rolls it back.
CloseUncommitted(rows, pending) == rows

\* Lines 95-154, with table_name and filepath given. data is the spreadsheet
\* at filepath; fault is the step at which the storage engine (or the read
\* of the file) fails, if any.
InsertData(data, fault) ==
    LET info == TableInfo(table)
        run == LoadFrom(data.rows, info, fault, 1, 0)
        req == [NoRequest EXCEPT !.op = "insert_data", !.w = Len(data.columns),
                                 !.n = Len(data.rows), !.fault = fault.at]
    IN  /\ UNCHANGED <<uploading, coercing>>
        /\ IF fault.at = "connect" THEN
               /\ table' = table
               /\ conn' = "none"
               /\ last' = [req EXCEPT !.status = "error"]
           ELSE IF fault.at = "read" THEN
               /\ table' = table
               /\ conn' = "closed"
               /\ last' = [req EXCEPT !.status = "error"]
           ELSE IF Mismatch(data, info) THEN
               /\ table' = table
               /\ conn' = "closed"
               /\ last' = [req EXCEPT !.status = "mismatch"]
           ELSE IF run.raised \/ fault.at = "commit" THEN
               /\ table' = [table EXCEPT !.rows = CloseUncommitted(table.rows, run.issued)]
               /\ conn' = "closed"
               /\ last' = [req EXCEPT !.status = "error", !.issued = run.issued]
           ELSE
               /\ table' = [table EXCEPT !.rows = Commit(table.rows, run.issued)]
               /\ conn' = "closed"
               /\ last' = [req EXCEPT !.status = "success", !.issued = run.issued,
                                      !.count = run.issued]
        /\ table'.rows <= MaxTableRows

\* Lines 99-101: table_name or filepath is not given.
InsertDataNoArgs ==
    /\ UNCHANGED <<table, uploading, coercing>>
    /\ conn' = "none"
    /\ last' = [NoRequest EXCEPT !.op = "insert_data", !.status = "missing"]

\* -------------------------------------------------------------------- upload

\* Lines 48-60, with a file and a year given. The response is the
\* confirmation page with one schema entry per column, or the error page
\* when a step raises; cleaned_columns is the local of line 51.
Upload ==
    LET original_columns == df.columns
        cleaned_columns == [i \in 1..Len(original_columns) |->
                               Clean(original_columns[i])]
        inferred == [i \in 1..Len(original_columns) |->
                        infer_data_type(Column(df, i))]
    IN  /\ page.status = "none"
        /\ UNCHANGED <<pipeline, coercing, df>>
        /\ IF \E i \in 1..Len(original_columns) : inferred[i].raised THEN
               page' = [status |-> "error", cleaned_columns |-> cleaned_columns,
                        schema |-> <<>>]
           ELSE
               page' = [status |-> "confirm", cleaned_columns |-> cleaned_columns,
                        schema |-> [i \in 1..Len(original_columns) |->
                                       [original |-> original_columns[i],
                                        cleaned |-> cleaned_columns[i],
                                        type |-> inferred[i].val]]]

\* Lines 32-41: no file, or no year.
UploadIncomplete ==
    /\ page.status = "none"
    /\ UNCHANGED <<pipeline, coercing, df>>
    /\ page' = [status |-> "missing", cleaned_columns |-> <<>>, schema |-> <<>>]

\* ------------------------------------------------- the coercion of one row

\* Lines 121-138 applied to the row and the catalog at hand.
CoerceOneRow ==
    /\ bound = NotRun
    /\ bound' = [done |-> TRUE] @@ CoerceRow(row, table_info)
    /\ UNCHANGED <<pipeline, uploading, row, table_info>>

\* ------------------------------------------------------- the requests made

\* The header pandas gives a sheet of w columns whose header cells are a, aa, ...
Header(w) == [i \in 1..w |-> [j \in 1..i |-> "a"]]

Shapes(maxcells) ==
    {s \in (1..maxcells) \X (0..maxcells) : s[1] * s[2] <= maxcells}

\* The spreadsheets of at most maxcells cells over `cells`, and the empty sheet.
Datasets(cells, maxcells) ==
    {[columns |-> <<>>, rows |-> <<>>]} \cup
    UNION {{[columns |-> Header(s[1]), rows |-> rs] :
               rs \in [1..s[2] -> [1..s[1] -> cells]]} : s \in Shapes(maxcells)}

InsertFaults(data) ==
    {[at |-> a, row |-> 0] : a \in {"none", "connect", "read", "commit"}}
    \cup {[at |-> "execute", row |-> j] : j \in 1..Len(data.rows)}

CreateFaults == {"none", "connect", "drop", "create"}

\* The schemas of at most maxcols columns named from `names`.
Schemas(names, maxcols) ==
    UNION {[1..w -> [name : names, type : Types]] : w \in 0..maxcols}

\* The cells of the loads: one that converts, one that fails to parse, one
\* whose conversion to an integer overflows.
LoadCells == {IntCell(1), TextCell("abc"), TextCell("inf")}

\* The schemas the loads are made against: the columns are named as Header
\* names them.
LoadSchemas ==
    {columns \in Schemas({Header(MaxCols)[i] : i \in 1..MaxCols}, MaxCols) :
        \A i \in 1..Len(columns) : columns[i].name = Header(MaxCols)[i]}

Next ==
    \/ \E columns \in LoadSchemas, fault \in CreateFaults :
           CreateDb(columns, fault)
    \/ \E data \in Datasets(LoadCells, MaxCells) :
           \E fault \in InsertFaults(data) : InsertData(data, fault)
    \/ InsertDataNoArgs

Init == InitPipeline /\ InitUpload /\ InitCoerce

Spec == Init /\ [][Next]_vars

\* ---------------------------------------------- create_db on unusual names

\* The names of at most n characters over `chars`.
NamesUpTo(chars, n) == UNION {[1..k -> chars] : k \in 0..n}

\* Confirmed names: a letter, and the double quote that line 85 wraps names in.
SchemaChars == {"a", "\""}

NextSchema ==
    \/ \E columns \in Schemas(NamesUpTo(SchemaChars, MaxNameLen), MaxCols),
          fault \in {"none", "create"} : CreateDb(columns, fault)
    \/ \E data \in Datasets({IntCell(1)}, MaxCells) :
           InsertData(data, [at |-> "none", row |-> 0])

SpecSchema == Init /\ [][NextSchema]_vars

\* ----------------------------------------------------- coercion, row by row

CoerceCells ==
    {Missing, IntCell(1), FloatCell(-15), HugeCell, TextCell("abc"),
     TextCell("2.5"), TextCell("inf"), DateCell}

\* The catalogs of w columns, named as Header names them.
Catalogs(w) ==
    {[i \in 1..w |-> [name |-> Header(w)[i], type |-> ts[i]]] : ts \in [1..w -> Types]}

InitCoerceRows ==
    /\ InitPipeline /\ InitUpload
    /\ \E w \in 1..MaxRowWidth :
           /\ row \in [1..w -> CoerceCells]
           /\ table_info \in Catalogs(w)
    /\ bound = NotRun

SpecCoerce == InitCoerceRows /\ [][CoerceOneRow]_vars

\* ------------------------------------------------------- upload: inference

InferCells ==
    {Missing, IntCell(1), IntCell(2), IntCell(3), FloatCell(15), FloatCell(20),
     TextCell("a"), TextCell("7"), TextCell("inf")}

NoPage == [status |-> "none", cleaned_columns |-> <<>>, schema |-> <<>>]

InitInfer ==
    /\ InitPipeline /\ InitCoerce
    /\ df \in Datasets(InferCells, MaxInferCells)
    /\ page = NoPage

NextUpload == Upload \/ UploadIncomplete

SpecInfer == InitInfer /\ [][NextUpload]_vars

\* --------------------------------------------------- upload: name cleaning

HeaderChars == {" ", ".", "(", ")", "/", "a"}

\* The headers of at most k characters in all: every name is not empty.
RECURSIVE HeadersOf(_)
HeadersOf(k) ==
    {<<>>} \cup
    UNION {UNION {{<<nm>> \o h : h \in HeadersOf(k - n)} : nm \in [1..n -> HeaderChars]} :
              n \in 1..k}

StartDate == <<"S", "t", "a", "r", "t", " ", "D", "a", "t", "e">>

\* pandas makes the names of a header distinct.
Headers ==
    {h \in HeadersOf(MaxHeaderChars) :
        h # <<>> /\ \A i, j \in 1..Len(h) : i # j => h[i] # h[j]}
    \cup {<<StartDate>>}

InitClean ==
    /\ InitPipeline /\ InitCoerce
    /\ \E h \in Headers :
           df = [columns |-> h, rows |-> <<[i \in 1..Len(h) |-> IntCell(1)]>>]
    /\ page = NoPage

SpecClean == InitClean /\ [][NextUpload]_vars

\* ------------------------------------------------------------------ claims

\* C1: a load of N rows whose column count matches the table's, with no
\* storage-level error, succeeds and reports N, whatever cells fail coercion.
C1_EveryRowCounted ==
    (/\ last.op = "insert_data"
     /\ last.status # "missing"
     /\ last.fault = "none"
     /\ last.w = Len(TableInfo(table)))
    => (last.status = "success" /\ last.count = last.n)

\* C2: a load whose spreadsheet and catalog differ in column count is refused
\* with the mismatch error, issues no insert, reports no count, leaves the
\* table as it was and closes its connection.
C2_MismatchWritesNothing ==
    [][(/\ last'.op = "insert_data"
        /\ last'.status # "missing"
        /\ last'.fault \notin {"connect", "read"}
        /\ last'.w # Len(TableInfo(table)))
       => (/\ last'.status = "mismatch"
           /\ last'.issued = 0
           /\ last'.count = 0
           /\ table' = table
           /\ conn' = "closed")]_vars

\* A mismatching spreadsheet with rows was refused by a table that holds rows.
C2_Witness ==
    /\ last.op = "insert_data"
    /\ last.status = "mismatch"
    /\ last.n > 0
    /\ table.rows > 0

\* C3: a load either succeeds, reports N and adds exactly its N rows, or it
\* fails, reports no count and leaves the table as it was, however many rows
\* it had inserted before the failure.
C3_LoadIsAtomic ==
    [][last'.op = "insert_data"
       => IF last'.status = "success"
          THEN /\ last'.count = last'.n
               /\ table'.rows = table.rows + last'.n
               /\ table'.cols = table.cols
               /\ table'.exists = table.exists
          ELSE /\ table' = table
               /\ last'.count = 0]_vars

\* A load failed after it had inserted a row, on a table that held rows.
C3_Witness ==
    /\ last.op = "insert_data"
    /\ last.status = "error"
    /\ last.issued >= 1
    /\ table.rows >= 1

\* The integer a number in tenths truncates to: the one between it and zero
\* that is less than one away from it.
Truncated(t) ==
    LET a == IF t < 0 THEN -t ELSE t
    IN  CHOOSE n \in (-a)..a :
            /\ n * t >= 0
            /\ (IF n < 0 THEN -n ELSE n) * 10 <= a
            /\ a < (IF n < 0 THEN -n ELSE n) * 10 + 10

\* What C4 says is bound for a cell under a type: null for a missing cell,
\* the string form under TEXT, the parsed float under REAL, its truncation
\* under INTEGER. It is silent on a cell that does not parse.
AsClaimed(cell, type, v) ==
    IF cell.k = "missing" THEN v = Null
    ELSE IF type = "TEXT" THEN v = SqlText(PyStr(cell))
    ELSE LET f == PyFloat(cell)
         IN  IF f.raised THEN TRUE
             ELSE IF type = "REAL" THEN v = SqlReal(f.val)
             ELSE IF f.val.f = "fin" THEN v = SqlInt(Truncated(f.val.t))
             ELSE v = SqlBigInt

ScenarioRow == <<IntCell(1), TextCell("abc"), Missing>>

InScenario ==
    /\ bound.done
    /\ row = ScenarioRow
    /\ [i \in 1..Len(table_info) |-> table_info[i].type] = <<"INTEGER", "TEXT", "REAL">>

\* C4: the i-th bound value comes from the i-th cell and the type of the i-th
\* catalog column; the row [1, "abc", missing] against [INTEGER, TEXT, REAL]
\* binds (1, "abc", null).
C4_CoercionByPosition ==
    /\ (bound.done /\ ~bound.raised)
       => /\ Len(bound.val) = Len(row)
          /\ \A i \in 1..Len(row) :
                 AsClaimed(row[i], table_info[i].type, bound.val[i])
    /\ InScenario
       => /\ ~bound.raised
          /\ bound.val = <<SqlInt(1), SqlText("abc"), Null>>

\* The scenario's row has been coerced.
C4_Witness == InScenario

\* C5: the coercion of a row never raises.
C5_CoercionNeverRaises == bound.done => ~bound.raised

\* The type C6 gives a column.
ClaimedType(series) ==
    LET present == SelectSeq(series, LAMBDA c : c.k # "missing")
    IN  IF present = <<>> \/ \E i \in 1..Len(present) : PyFloat(present[i]).raised
        THEN "TEXT"
        ELSE IF \A i \in 1..Len(present) :
                    /\ PyFloat(present[i]).val.f = "fin"
                    /\ PyFloat(present[i]).val.t % 10 = 0
        THEN "INTEGER"
        ELSE "REAL"

\* C6: every column of an upload is given the type the rules give it.
C6_TypeAsClaimed ==
    page.status \in {"confirm", "error"}
    => /\ page.status = "confirm"
       /\ \A i \in 1..Len(df.columns) :
              page.schema[i].type = ClaimedType(Column(df, i))

\* C7: the analysis of an upload never ends in the error page.
C7_InferenceNeverRaises == page.status # "error"

\* C8: no request ends with its connection open.
C8_ConnectionsClosed == conn # "open"

\* C9: a create_db that succeeds leaves an empty table whose catalog is the
\* schema it was given.
C9_CatalogIsSchema ==
    (last.op = "create_db" /\ last.status = "created")
    => (table.exists /\ table.rows = 0 /\ table.cols = last.columns)

RECURSIVE Mapped(_)
\* A name with each space made an underscore and each . ( ) / left out.
Mapped(name) ==
    IF name = <<>> THEN <<>>
    ELSE (IF Head(name) = " " THEN <<"_">>
          ELSE IF Head(name) \in {".", "(", ")", "/"} THEN <<>>
          ELSE <<Head(name)>>) \o Mapped(Tail(name))

====
